---- MODULE Spec2Model ----
(***************************************************************************)
(* Model of the lookyswappy sync engine (app/services/sync_service.py):    *)
(* the relational store of Games, GamePlayers, Rounds and Scores, and the  *)
(* two operations SyncService.pull and SyncService.push.                   *)
(*                                                                         *)
(* In Spec and SpecGate requests are served one at a time: a handler runs  *)
(* to its response, which stays in flight (call) until the client has      *)
(* received it.  In SpecConc requests overlap: each is a session with a    *)
(* transaction of its own (sessions).  Time is                             *)
(* counted in ticks of the server clock.  Every request reads the clock    *)
(* one tick after the previous request did, so two requests never share a  *)
(* timestamp.  Server identities (uuid4) are the positive                  *)
(* integers in order of allocation; NULL stands for SQL NULL / Python None *)
(* in a column of server identities or timestamps, and NONE for None (or   *)
(* the empty string, equally falsy in Python) in a wire field.             *)
(***************************************************************************)
EXTENDS Integers, Sequences, FiniteSets, TLC

VARIABLES db, now, call, wm, mon, sessions

vars == <<db, now, call, wm, mon, sessions>>

\* ------------------------------------------------------------------ bounds
MaxTime == 3

MaxRecs == 2

MaxGateTime == 6

MaxConcTime == 3

\* --------------------------------------------------------------- constants
NULL == 0

NONE == ""

Devices == {"A", "B"}

UuidStr == <<"u1", "u2", "u3", "u4", "u5", "u6", "u7", "u8", "u9", "u10",
             "u11", "u12", "u13", "u14", "u15", "u16", "u17", "u18", "u19", "u20">>

ConflictMessage == "Conflict detected. Please pull first."

MultipleResultsFound == "Multiple rows were found when one or none was required"

\* ------------------------------------------------------------- wire records
\* GameSync: the value v stands for one filled-in form of the record.
GameSync(c, v) ==
    [id |-> c,
     name |-> IF v = 1 THEN "Friday" ELSE "Sunday",
     target_score |-> 100 * v,
     status |-> IF v = 1 THEN "active" ELSE "completed",
     winner_id |-> IF v = 1 THEN NONE ELSE "p1",
     started_at |-> v,
     ended_at |-> IF v = 1 THEN NULL ELSE v]

GamePlayerSync(c, g, v) ==
    [id |-> c,
     game_id |-> g,
     name |-> IF v = 1 THEN "Ann" ELSE "Bob",
     position |-> v,
     current_total |-> 10 * (v - 1)]

RoundSync(c, g, k, v) ==
    [id |-> c,
     game_id |-> g,
     round_number |-> v,
     caller_id |-> k,
     created_at |-> v]

ScoreSync(c, r, p, v) ==
    [id |-> c,
     round_id |-> r,
     player_id |-> p,
     raw_score |-> 5 * v,
     bonus_applied |-> IF v = 1 THEN 0 ELSE 0 - 25,
     final_score |-> IF v = 1 THEN 5 ELSE 0 - 15,
     total_after |-> IF v = 1 THEN 5 ELSE 0 - 10]

NoChanges == [created |-> <<>>, updated |-> <<>>, deleted |-> <<>>]

SyncChanges == [games |-> NoChanges, game_players |-> NoChanges,
                rounds |-> NoChanges, scores |-> NoChanges]

Tables == {"games", "game_players", "rounds", "scores"}

\* ---------------------------------------------------------------- the store
EmptyStore == [games |-> <<>>, game_players |-> <<>>, rounds |-> <<>>, scores |-> <<>>]

Rows(tbl) == {tbl[i] : i \in 1..Len(tbl)}

\* uuid4: a server identity no record of the store carries
NewId(s) == Len(s.games) + Len(s.game_players) + Len(s.rounds) + Len(s.scores) + 1

\* SyncableBase columns of a freshly inserted row
SyncableBase(s, c, t) ==
    [id |-> NewId(s), client_id |-> c, is_deleted |-> FALSE,
     last_modified |-> t, created_at |-> t]

\* variant: no onupdate, last_modified stays as it was at the insert
OnUpdateNever(old, new, t) == new

\* onupdate=func.now(): the unit of work emits an UPDATE, and the store
\* refreshes last_modified, only for a row with a changed column
OnUpdate(old, new, t) ==
    IF new = old THEN old ELSE [new EXCEPT !.last_modified = t]

\* Result.scalar_one_or_none over "WHERE client_id = c":
\* the indexes of the matching rows
ByClientId(tbl, c) == {i \in 1..Len(tbl) : tbl[i].client_id = c}

\* ------------------------------------------------------------ transactions
\* A transaction: the store as the session sees it (pending rows are
\* flushed before every query) and the exception raised so far, if any.
Begin(s) == [db |-> s, err |-> NONE]

Raise(tx, e) == [tx EXCEPT !.err = e]

\* ------------------------------------------------- _get_*_by_client_id
\* The three lookups return the row (here: its index, NULL for no row) or
\* raise MultipleResultsFound; Found tells whether exactly one row matches.
Ambiguous(tbl, c) == Cardinality(ByClientId(tbl, c)) > 1

Found(tbl, c) == Cardinality(ByClientId(tbl, c)) = 1

RowOf(tbl, c) == tbl[CHOOSE i \in ByClientId(tbl, c) : TRUE]

\* ------------------------------------------------------ _apply_game_changes
NewGame(s, d, data, t) ==
    SyncableBase(s, data.id, t) @@
    [device_id |-> d, name |-> data.name, target_score |-> data.target_score,
     status |-> data.status, winner_id |-> NULL,
     started_at |-> data.started_at, ended_at |-> NULL]

GameCreated(tx, d, data, t) ==
    [tx EXCEPT !.db.games = Append(@, NewGame(tx.db, d, data, t))]

\* variant: an update brings a soft-deleted Game back
GameUpdatedRevive(tx, data, t) ==
    LET tbl == tx.db.games
        hit == ByClientId(tbl, data.id)
    IN  IF Cardinality(hit) > 1 THEN Raise(tx, MultipleResultsFound)
        ELSE IF hit = {} THEN tx
        ELSE LET i == CHOOSE j \in hit : TRUE
                 new == [tbl[i] EXCEPT !.name = data.name,
                                       !.target_score = data.target_score,
                                       !.status = data.status,
                                       !.ended_at = data.ended_at,
                                       !.is_deleted = FALSE]
             IN  [tx EXCEPT !.db.games[i] = OnUpdate(tbl[i], new, t)]

GameUpdated(tx, data, t) ==
    LET tbl == tx.db.games
        hit == ByClientId(tbl, data.id)
    IN  IF Cardinality(hit) > 1 THEN Raise(tx, MultipleResultsFound)
        ELSE IF hit = {} THEN tx
        ELSE LET i == CHOOSE j \in hit : TRUE
                 new == [tbl[i] EXCEPT !.name = data.name,
                                       !.target_score = data.target_score,
                                       !.status = data.status,
                                       !.ended_at = data.ended_at]
             IN  [tx EXCEPT !.db.games[i] = OnUpdate(tbl[i], new, t)]

\* variant: the soft-deleted row gives up its client identity
SoftDeleteForget(tx, table, c, t) ==
    LET tbl == tx.db[table]
        hit == ByClientId(tbl, c)
    IN  IF Cardinality(hit) > 1 THEN Raise(tx, MultipleResultsFound)
        ELSE IF hit = {} THEN tx
        ELSE LET i == CHOOSE j \in hit : TRUE
                 new == [tbl[i] EXCEPT !.is_deleted = TRUE, !.client_id = NONE]
             IN  [tx EXCEPT !.db[table][i] = OnUpdate(tbl[i], new, t)]

\* variant: the soft delete of a Game, a Player or a Round is passed on to
\* the records that refer to it
SoftDeleteCascade(tx, table, c, t) ==
    LET tbl == tx.db[table]
        hit == ByClientId(tbl, c)
        Gone(s, tb, Refers(_)) ==
            [s EXCEPT ![tb] =
                [i \in 1..Len(@) |->
                    IF Refers(@[i])
                    THEN OnUpdate(@[i], [@[i] EXCEPT !.is_deleted = TRUE], t)
                    ELSE @[i]]]
    IN  IF Cardinality(hit) > 1 THEN Raise(tx, MultipleResultsFound)
        ELSE IF hit = {} THEN tx
        ELSE LET i == CHOOSE j \in hit : TRUE
                 new == [tbl[i] EXCEPT !.is_deleted = TRUE]
                 own == [tx.db EXCEPT ![table][i] = OnUpdate(tbl[i], new, t)]
             IN  [tx EXCEPT !.db =
                     CASE table = "games" ->
                              Gone(Gone(own, "game_players",
                                        LAMBDA r : r.game_id = tbl[i].id),
                                   "rounds", LAMBDA r : r.game_id = tbl[i].id)
                       [] table = "game_players" ->
                              Gone(own, "scores",
                                   LAMBDA r : r.player_id = tbl[i].id)
                       [] table = "rounds" ->
                              Gone(own, "scores",
                                   LAMBDA r : r.round_id = tbl[i].id)
                       [] OTHER -> own]

\* the body shared by the four "for client_id in changes.deleted" loops
SoftDelete(tx, table, c, t) ==
    LET tbl == tx.db[table]
        hit == ByClientId(tbl, c)
    IN  IF Cardinality(hit) > 1 THEN Raise(tx, MultipleResultsFound)
        ELSE IF hit = {} THEN tx
        ELSE LET i == CHOOSE j \in hit : TRUE
                 new == [tbl[i] EXCEPT !.is_deleted = TRUE]
             IN  [tx EXCEPT !.db[table][i] = OnUpdate(tbl[i], new, t)]

RECURSIVE GamesCreatedLoop(_, _, _, _, _)
GamesCreatedLoop(tx, d, list, i, t) ==
    IF i > Len(list) \/ tx.err # NONE THEN tx
    ELSE GamesCreatedLoop(GameCreated(tx, d, list[i], t), d, list, i + 1, t)

RECURSIVE GamesUpdatedLoop(_, _, _, _)
GamesUpdatedLoop(tx, list, i, t) ==
    IF i > Len(list) \/ tx.err # NONE THEN tx
    ELSE GamesUpdatedLoop(GameUpdated(tx, list[i], t), list, i + 1, t)

RECURSIVE DeletedLoop(_, _, _, _, _)
DeletedLoop(tx, table, list, i, t) ==
    IF i > Len(list) \/ tx.err # NONE THEN tx
    ELSE DeletedLoop(SoftDelete(tx, table, list[i], t), table, list, i + 1, t)

ApplyGameChanges(tx, d, changes, t) ==
    DeletedLoop(
        GamesUpdatedLoop(
            GamesCreatedLoop(tx, d, changes.created, 1, t),
            changes.updated, 1, t),
        "games", changes.deleted, 1, t)

\* ---------------------------------------------------- _apply_player_changes
NewPlayer(s, game, data, t) ==
    SyncableBase(s, data.id, t) @@
    [game_id |-> game.id, name |-> data.name, position |-> data.position,
     current_total |-> data.current_total]

PlayerCreated(tx, data, t) ==
    LET games == tx.db.games
    IN  IF Ambiguous(games, data.game_id) THEN Raise(tx, MultipleResultsFound)
        ELSE IF ~Found(games, data.game_id) THEN tx
        ELSE [tx EXCEPT !.db.game_players =
                 Append(@, NewPlayer(tx.db, RowOf(games, data.game_id), data, t))]

PlayerUpdated(tx, data, t) ==
    LET tbl == tx.db.game_players
        hit == ByClientId(tbl, data.id)
    IN  IF Cardinality(hit) > 1 THEN Raise(tx, MultipleResultsFound)
        ELSE IF hit = {} THEN tx
        ELSE LET i == CHOOSE j \in hit : TRUE
                 new == [tbl[i] EXCEPT !.name = data.name,
                                       !.position = data.position,
                                       !.current_total = data.current_total]
             IN  [tx EXCEPT !.db.game_players[i] = OnUpdate(tbl[i], new, t)]

RECURSIVE PlayersCreatedLoop(_, _, _, _)
PlayersCreatedLoop(tx, list, i, t) ==
    IF i > Len(list) \/ tx.err # NONE THEN tx
    ELSE PlayersCreatedLoop(PlayerCreated(tx, list[i], t), list, i + 1, t)

RECURSIVE PlayersUpdatedLoop(_, _, _, _)
PlayersUpdatedLoop(tx, list, i, t) ==
    IF i > Len(list) \/ tx.err # NONE THEN tx
    ELSE PlayersUpdatedLoop(PlayerUpdated(tx, list[i], t), list, i + 1, t)

ApplyPlayerChanges(tx, changes, t) ==
    DeletedLoop(
        PlayersUpdatedLoop(
            PlayersCreatedLoop(tx, changes.created, 1, t),
            changes.updated, 1, t),
        "game_players", changes.deleted, 1, t)

\* ----------------------------------------------------- _apply_round_changes
NewRound(s, game, caller_id, data, t) ==
    SyncableBase(s, data.id, t) @@
    [game_id |-> game.id, round_number |-> data.round_number,
     caller_id |-> caller_id]

\* variant: a Round whose caller is not found is skipped like one whose
\* Game is not found
RoundCreatedStrict(tx, data, t) ==
    LET games == tx.db.games
        players == tx.db.game_players
    IN  IF Ambiguous(games, data.game_id) THEN Raise(tx, MultipleResultsFound)
        ELSE IF ~Found(games, data.game_id) THEN tx
        ELSE IF data.caller_id # NONE /\ Ambiguous(players, data.caller_id)
             THEN Raise(tx, MultipleResultsFound)
        ELSE IF data.caller_id # NONE /\ ~Found(players, data.caller_id) THEN tx
        ELSE LET caller_id ==
                     IF data.caller_id # NONE
                     THEN RowOf(players, data.caller_id).id
                     ELSE NULL
             IN  [tx EXCEPT !.db.rounds =
                     Append(@, NewRound(tx.db, RowOf(games, data.game_id),
                                        caller_id, data, t))]

RoundCreated(tx, data, t) ==
    LET games == tx.db.games
        players == tx.db.game_players
    IN  IF Ambiguous(games, data.game_id) THEN Raise(tx, MultipleResultsFound)
        ELSE IF ~Found(games, data.game_id) THEN tx
        ELSE IF data.caller_id # NONE /\ Ambiguous(players, data.caller_id)
             THEN Raise(tx, MultipleResultsFound)
        ELSE LET caller_id ==
                     IF data.caller_id # NONE /\ Found(players, data.caller_id)
                     THEN RowOf(players, data.caller_id).id
                     ELSE NULL
             IN  [tx EXCEPT !.db.rounds =
                     Append(@, NewRound(tx.db, RowOf(games, data.game_id),
                                        caller_id, data, t))]

RoundUpdated(tx, data, t) ==
    LET tbl == tx.db.rounds
        players == tx.db.game_players
        hit == ByClientId(tbl, data.id)
    IN  IF Cardinality(hit) > 1 THEN Raise(tx, MultipleResultsFound)
        ELSE IF hit = {} THEN tx
        ELSE IF data.caller_id # NONE /\ Ambiguous(players, data.caller_id)
             THEN Raise(tx, MultipleResultsFound)
        ELSE LET i == CHOOSE j \in hit : TRUE
                 numbered == [tbl[i] EXCEPT !.round_number = data.round_number]
                 new == IF data.caller_id # NONE /\ Found(players, data.caller_id)
                        THEN [numbered EXCEPT
                                 !.caller_id = RowOf(players, data.caller_id).id]
                        ELSE numbered
             IN  [tx EXCEPT !.db.rounds[i] = OnUpdate(tbl[i], new, t)]

RECURSIVE RoundsCreatedLoop(_, _, _, _)
RoundsCreatedLoop(tx, list, i, t) ==
    IF i > Len(list) \/ tx.err # NONE THEN tx
    ELSE RoundsCreatedLoop(RoundCreated(tx, list[i], t), list, i + 1, t)

RECURSIVE RoundsUpdatedLoop(_, _, _, _)
RoundsUpdatedLoop(tx, list, i, t) ==
    IF i > Len(list) \/ tx.err # NONE THEN tx
    ELSE RoundsUpdatedLoop(RoundUpdated(tx, list[i], t), list, i + 1, t)

ApplyRoundChanges(tx, changes, t) ==
    DeletedLoop(
        RoundsUpdatedLoop(
            RoundsCreatedLoop(tx, changes.created, 1, t),
            changes.updated, 1, t),
        "rounds", changes.deleted, 1, t)

\* ----------------------------------------------------- _apply_score_changes
NewScore(s, round_obj, player, data, t) ==
    SyncableBase(s, data.id, t) @@
    [round_id |-> round_obj.id, player_id |-> player.id,
     raw_score |-> data.raw_score, bonus_applied |-> data.bonus_applied,
     final_score |-> data.final_score, total_after |-> data.total_after]

\* variant: a Score whose Player is not found is inserted without a Player,
\* as a Round is without a caller
ScoreCreatedLenient(tx, data, t) ==
    LET rounds == tx.db.rounds
        players == tx.db.game_players
    IN  IF Ambiguous(rounds, data.round_id) \/ Ambiguous(players, data.player_id)
        THEN Raise(tx, MultipleResultsFound)
        ELSE IF ~Found(rounds, data.round_id) THEN tx
        ELSE LET player == IF Found(players, data.player_id)
                           THEN RowOf(players, data.player_id)
                           ELSE [id |-> NULL]
             IN  [tx EXCEPT !.db.scores =
                     Append(@, NewScore(tx.db, RowOf(rounds, data.round_id),
                                        player, data, t))]

ScoreCreated(tx, data, t) ==
    LET rounds == tx.db.rounds
        players == tx.db.game_players
    IN  IF Ambiguous(rounds, data.round_id) \/ Ambiguous(players, data.player_id)
        THEN Raise(tx, MultipleResultsFound)
        ELSE IF ~Found(rounds, data.round_id) \/ ~Found(players, data.player_id)
        THEN tx
        ELSE [tx EXCEPT !.db.scores =
                 Append(@, NewScore(tx.db, RowOf(rounds, data.round_id),
                                    RowOf(players, data.player_id), data, t))]

ScoreUpdated(tx, data, t) ==
    LET tbl == tx.db.scores
        hit == ByClientId(tbl, data.id)
    IN  IF Cardinality(hit) > 1 THEN Raise(tx, MultipleResultsFound)
        ELSE IF hit = {} THEN tx
        ELSE LET i == CHOOSE j \in hit : TRUE
                 new == [tbl[i] EXCEPT !.raw_score = data.raw_score,
                                       !.bonus_applied = data.bonus_applied,
                                       !.final_score = data.final_score,
                                       !.total_after = data.total_after]
             IN  [tx EXCEPT !.db.scores[i] = OnUpdate(tbl[i], new, t)]

RECURSIVE ScoresCreatedLoop(_, _, _, _)
ScoresCreatedLoop(tx, list, i, t) ==
    IF i > Len(list) \/ tx.err # NONE THEN tx
    ELSE ScoresCreatedLoop(ScoreCreated(tx, list[i], t), list, i + 1, t)

RECURSIVE ScoresUpdatedLoop(_, _, _, _)
ScoresUpdatedLoop(tx, list, i, t) ==
    IF i > Len(list) \/ tx.err # NONE THEN tx
    ELSE ScoresUpdatedLoop(ScoreUpdated(tx, list[i], t), list, i + 1, t)

ApplyScoreChanges(tx, changes, t) ==
    DeletedLoop(
        ScoresUpdatedLoop(
            ScoresCreatedLoop(tx, changes.created, 1, t),
            changes.updated, 1, t),
        "scores", changes.deleted, 1, t)

\* --------------------------------------------------------- _check_conflicts
\* datetime.fromtimestamp(last_pulled_at, tz=utc): seconds to clock ticks
FromTimestamp(ts) == ts

\* variants of the query: ">=" for ">", and a filter on live Games
CheckConflictsInclusive(s, d, last_pulled_at) ==
    LET since == FromTimestamp(last_pulled_at)
    IN  {g \in Rows(s.games) : g.device_id = d /\ g.last_modified >= since} # {}

CheckConflictsLive(s, d, last_pulled_at) ==
    LET since == FromTimestamp(last_pulled_at)
    IN  {g \in Rows(s.games) :
            g.device_id = d /\ ~g.is_deleted /\ g.last_modified > since} # {}

CheckConflicts(s, d, last_pulled_at) ==
    LET since == FromTimestamp(last_pulled_at)
    IN  {g \in Rows(s.games) : g.device_id = d /\ g.last_modified > since} # {}

\* --------------------------------------------------------- SyncService.push
\* The four tables in the order of the try block; an exception skips the
\* remaining calls.
ApplyAll(s, d, changes, t) ==
    ApplyScoreChanges(
        ApplyRoundChanges(
            ApplyPlayerChanges(
                ApplyGameChanges(Begin(s), d, changes.games, t),
                changes.game_players, t),
            changes.rounds, t),
        changes.scores, t)

\* db.commit() keeps the session's rows, db.rollback() the rows of the last
\* commit
Commit(s, tx) == tx.db

\* variant: the rows written before the exception stay
RollbackPartial(s, tx) == tx.db

Rollback(s, tx) == s

PushResult(s, d, changes, last_pulled_at, t) ==
    IF CheckConflicts(s, d, last_pulled_at)
    THEN [ok |-> FALSE, errors |-> <<ConflictMessage>>, db |-> s,
          conflict |-> TRUE, tx |-> Begin(s)]
    ELSE LET tx == ApplyAll(s, d, changes, t)
         IN  IF tx.err = NONE
             THEN [ok |-> TRUE, errors |-> <<>>, db |-> Commit(s, tx),
                   conflict |-> FALSE, tx |-> tx]
             ELSE [ok |-> FALSE, errors |-> <<tx.err>>, db |-> Rollback(s, tx),
                   conflict |-> FALSE, tx |-> tx]

\* --------------------------------------------------------- SyncService.pull
\* datetime.min, earlier than every timestamp of the store
DatetimeMin == 0 - 1

\* str(uuid)
Str(id) == UuidStr[id]

\* record.client_id or str(record.id)
SyncId(r) == IF r.client_id # NONE THEN r.client_id ELSE Str(r.id)

\* _get_client_id_for_game / _player / _round
ClientIdFor(tbl, server_id) ==
    LET hit == {r \in Rows(tbl) : r.id = server_id}
    IN  IF hit # {} THEN SyncId(CHOOSE r \in hit : TRUE) ELSE Str(server_id)

MapSeq(seq, F(_)) == [i \in 1..Len(seq) |-> F(seq[i])]

\* the classification shared by the four _pull_* loops
Classify(records, Data(_)) ==
    [created |-> MapSeq(SelectSeq(records,
                     LAMBDA r : ~r.is_deleted /\ r.client_id = NONE), Data),
     updated |-> MapSeq(SelectSeq(records,
                     LAMBDA r : ~r.is_deleted /\ r.client_id # NONE), Data),
     deleted |-> MapSeq(SelectSeq(records, LAMBDA r : r.is_deleted), SyncId)]

\* variant: soft-deleted Games are left out
PullGamesLive(s, d, since) ==
    LET records == SelectSeq(s.games,
                       LAMBDA r : /\ r.device_id = d /\ ~r.is_deleted
                                  /\ r.last_modified > since)
        Data(r) == [id |-> SyncId(r), name |-> r.name,
                    target_score |-> r.target_score, status |-> r.status,
                    winner_id |-> IF r.winner_id # NULL THEN Str(r.winner_id)
                                  ELSE NONE,
                    started_at |-> r.started_at, ended_at |-> r.ended_at]
    IN  Classify(records, Data)

\* variant: the Games of every device
PullGamesShared(s, d, since) ==
    LET records == SelectSeq(s.games, LAMBDA r : r.last_modified > since)
        Data(r) == [id |-> SyncId(r), name |-> r.name,
                    target_score |-> r.target_score, status |-> r.status,
                    winner_id |-> IF r.winner_id # NULL THEN Str(r.winner_id)
                                  ELSE NONE,
                    started_at |-> r.started_at, ended_at |-> r.ended_at]
    IN  Classify(records, Data)

PullGames(s, d, since) ==
    LET records == SelectSeq(s.games,
                       LAMBDA r : r.device_id = d /\ r.last_modified > since)
        Data(r) == [id |-> SyncId(r), name |-> r.name,
                    target_score |-> r.target_score, status |-> r.status,
                    winner_id |-> IF r.winner_id # NULL THEN Str(r.winner_id)
                                  ELSE NONE,
                    started_at |-> r.started_at, ended_at |-> r.ended_at]
    IN  Classify(records, Data)

\* variant: the Games of the device, soft-deleted or not
GetDeviceGameIdsAny(s, d) ==
    {g.id : g \in {r \in Rows(s.games) : r.device_id = d}}

\* variant: the live Games of every device
GetDeviceGameIdsAll(s, d) ==
    {g.id : g \in {r \in Rows(s.games) : ~r.is_deleted}}

GetDeviceGameIds(s, d) ==
    {g.id : g \in {r \in Rows(s.games) : r.device_id = d /\ ~r.is_deleted}}

GetRoundIds(s, game_ids) ==
    {r.id : r \in {x \in Rows(s.rounds) : x.game_id \in game_ids /\ ~x.is_deleted}}

PullPlayers(s, since, game_ids) ==
    LET records == SelectSeq(s.game_players,
                       LAMBDA r : r.game_id \in game_ids /\ r.last_modified > since)
        Data(r) == [id |-> SyncId(r), game_id |-> ClientIdFor(s.games, r.game_id),
                    name |-> r.name, position |-> r.position,
                    current_total |-> r.current_total]
    IN  Classify(records, Data)

PullRounds(s, since, game_ids) ==
    LET records == SelectSeq(s.rounds,
                       LAMBDA r : r.game_id \in game_ids /\ r.last_modified > since)
        Data(r) == [id |-> SyncId(r), game_id |-> ClientIdFor(s.games, r.game_id),
                    round_number |-> r.round_number,
                    caller_id |-> IF r.caller_id # NULL
                                  THEN ClientIdFor(s.game_players, r.caller_id)
                                  ELSE NONE,
                    created_at |-> r.created_at]
    IN  Classify(records, Data)

\* variant: the Scores of soft-deleted Players are left out
PullScoresLivePlayers(s, since, round_ids) ==
    LET live == {p.id : p \in {x \in Rows(s.game_players) : ~x.is_deleted}}
        records == SelectSeq(s.scores,
                       LAMBDA r : /\ r.round_id \in round_ids
                                  /\ r.player_id \in live
                                  /\ r.last_modified > since)
        Data(r) == [id |-> SyncId(r), round_id |-> ClientIdFor(s.rounds, r.round_id),
                    player_id |-> ClientIdFor(s.game_players, r.player_id),
                    raw_score |-> r.raw_score, bonus_applied |-> r.bonus_applied,
                    final_score |-> r.final_score, total_after |-> r.total_after]
    IN  Classify(records, Data)

PullScores(s, since, round_ids) ==
    LET records == SelectSeq(s.scores,
                       LAMBDA r : r.round_id \in round_ids /\ r.last_modified > since)
        Data(r) == [id |-> SyncId(r), round_id |-> ClientIdFor(s.rounds, r.round_id),
                    player_id |-> ClientIdFor(s.game_players, r.player_id),
                    raw_score |-> r.raw_score, bonus_applied |-> r.bonus_applied,
                    final_score |-> r.final_score, total_after |-> r.total_after]
    IN  Classify(records, Data)

\* variant: the watermark of the request is returned as the new one
PullResultEcho(s, d, last_pulled_at, t) ==
    LET since == IF last_pulled_at > 0 THEN FromTimestamp(last_pulled_at)
                 ELSE DatetimeMin
        game_ids == GetDeviceGameIds(s, d)
        round_ids == GetRoundIds(s, game_ids)
    IN  [changes |-> [games |-> PullGames(s, d, since),
                      game_players |-> PullPlayers(s, since, game_ids),
                      rounds |-> PullRounds(s, since, game_ids),
                      scores |-> PullScores(s, since, round_ids)],
         timestamp |-> last_pulled_at]

PullResult(s, d, last_pulled_at, t) ==
    LET since == IF last_pulled_at > 0 THEN FromTimestamp(last_pulled_at)
                 ELSE DatetimeMin
        game_ids == GetDeviceGameIds(s, d)
        round_ids == GetRoundIds(s, game_ids)
    IN  [changes |-> [games |-> PullGames(s, d, since),
                      game_players |-> PullPlayers(s, since, game_ids),
                      rounds |-> PullRounds(s, since, game_ids),
                      scores |-> PullScores(s, since, round_ids)],
         timestamp |-> t]

\* ------------------------------------------------------------------- inputs
One(table, kind, entry) == [SyncChanges EXCEPT ![table][kind] = <<entry>>]

Merge(a, b) ==
    [tb \in Tables |-> [created |-> a[tb].created \o b[tb].created,
                        updated |-> a[tb].updated \o b[tb].updated,
                        deleted |-> a[tb].deleted \o b[tb].deleted]]

\* payloads of one entry
GameEntries ==
    {One("games", "created", GameSync("g1", 1)),
     One("games", "created", GameSync("g2", 1)),
     One("games", "updated", GameSync("g1", 2)),
     One("games", "deleted", "g1")}

PlayerEntries ==
    {One("game_players", "created", GamePlayerSync("p1", "g1", 1)),
     One("game_players", "updated", GamePlayerSync("p1", "g1", 2)),
     One("game_players", "deleted", "p1")}

RoundEntries ==
    {One("rounds", "created", RoundSync("r1", "g1", "p1", 1)),
     One("rounds", "updated", RoundSync("r1", "g1", "p2", 2)),
     One("rounds", "updated", RoundSync("r1", "g1", NONE, 1)),
     One("rounds", "deleted", "r1")}

ScoreEntries ==
    {One("scores", "created", ScoreSync("s1", "r1", "p1", 1)),
     One("scores", "updated", ScoreSync("s1", "r1", "p1", 2)),
     One("scores", "deleted", "s1")}

\* a Game with a Player, a Round called by that Player, and a Score
Chain(g, p, r, sc) ==
    [games |-> [NoChanges EXCEPT !.created = <<GameSync(g, 1)>>],
     game_players |-> [NoChanges EXCEPT !.created = <<GamePlayerSync(p, g, 1)>>],
     rounds |-> [NoChanges EXCEPT !.created = <<RoundSync(r, g, p, 1)>>],
     scores |-> [NoChanges EXCEPT !.created = <<ScoreSync(sc, r, p, 1)>>]]

\* entries for identities that are not in the store, in all four tables:
\* updates and deletions of "g2", "p2", "r2", "s2" and children created
\* under them
Strays ==
    [games |-> [NoChanges EXCEPT !.updated = <<GameSync("g2", 2)>>,
                                 !.deleted = <<"g2">>],
     game_players |-> [created |-> <<GamePlayerSync("p2", "g2", 1)>>,
                       updated |-> <<GamePlayerSync("p2", "g2", 2)>>,
                       deleted |-> <<"p2">>],
     rounds |-> [created |-> <<RoundSync("r2", "g2", NONE, 1)>>,
                 updated |-> <<RoundSync("r2", "g2", NONE, 2)>>,
                 deleted |-> <<"r2">>],
     scores |-> [created |-> <<ScoreSync("s2", "r2", "p1", 1),
                               ScoreSync("s2", "r1", "p2", 1)>>,
                 updated |-> <<ScoreSync("s2", "r2", "p2", 2)>>,
                 deleted |-> <<"s2">>]]

\* payloads of several entries
Batches ==
    {Chain("g1", "p1", "r1", "s1"),
     Strays,
     Merge(One("games", "updated", GameSync("g1", 2)), Strays),
     Merge(One("games", "created", GameSync("g1", 1)),
           One("rounds", "created", RoundSync("r1", "g1", "p1", 1))),
     Merge(One("games", "created", GameSync("g1", 1)),
           Merge(One("games", "updated", GameSync("g1", 2)),
                 One("games", "deleted", "g1"))),
     Merge(One("games", "updated", GameSync("g1", 1)),
           One("games", "updated", GameSync("g1", 2)))}

Payloads == {SyncChanges} \cup GameEntries \cup PlayerEntries \cup RoundEntries
            \cup ScoreEntries \cup Batches

\* the payloads of the scenarios that are followed over several requests
GatePayloads ==
    {One("games", "created", GameSync("g1", 1)),
     One("games", "updated", GameSync("g1", 2)),
     One("games", "deleted", "g1"),
     Chain("g1", "p1", "r1", "s1")}

\* ------------------------------------------------------------------ actions
Idle == [op |-> "idle"]

\* what a client remembers of its pushes since its last pull
NoMemory == [pulled |-> FALSE, changed |-> FALSE, stale |-> {},
             retry |-> {}, quiet |-> FALSE, script |-> 0]

Init ==
    /\ db = EmptyStore
    /\ now = 0
    /\ wm = [d \in Devices |-> 0]
    /\ call = Idle
    /\ mon = [d \in Devices |-> NoMemory]
    /\ sessions = <<>>

WithinBounds(s) == \A tb \in Tables : Len(s[tb]) <= MaxRecs

\* POST /sync/push
Push(d, changes, last_pulled_at) ==
    LET t == now + 1
        r == PushResult(db, d, changes, last_pulled_at, t)
    IN  /\ call = Idle
        /\ WithinBounds(r.tx.db)
        /\ now' = t
        /\ db' = r.db
        /\ call' = [op |-> "push", device |-> d, last_pulled_at |-> last_pulled_at,
                    changes |-> changes, pre |-> db, at |-> t,
                    ok |-> r.ok, errors |-> r.errors, conflict |-> r.conflict,
                    tx |-> r.tx]
        /\ UNCHANGED wm

\* variant: the server remembers the watermark it gave the device and leaves
\* out what the device has pulled before
PullRemembered(d, last_pulled_at) ==
    LET t == now + 1
        seen == IF wm[d] > last_pulled_at THEN wm[d] ELSE last_pulled_at
        r == PullResult(db, d, seen, t)
    IN  /\ call = Idle
        /\ now' = t
        /\ call' = [op |-> "pull", device |-> d, last_pulled_at |-> last_pulled_at,
                    pre |-> db, at |-> t,
                    changes |-> r.changes, timestamp |-> r.timestamp]
        /\ UNCHANGED <<db, wm>>

\* GET /sync/pull
Pull(d, last_pulled_at) ==
    LET t == now + 1
        r == PullResult(db, d, last_pulled_at, t)
    IN  /\ call = Idle
        /\ now' = t
        /\ call' = [op |-> "pull", device |-> d, last_pulled_at |-> last_pulled_at,
                    pre |-> db, at |-> t,
                    changes |-> r.changes, timestamp |-> r.timestamp]
        /\ UNCHANGED <<db, wm>>

\* The client takes the response; the timestamp of a pull becomes its
\* watermark.
Receive ==
    /\ call # Idle
    /\ call' = Idle
    /\ wm' = IF call.op = "pull"
             THEN [wm EXCEPT ![call.device] = call.timestamp]
             ELSE wm
    /\ UNCHANGED <<db, now>>

Next ==
    \/ /\ now < MaxTime
       /\ \E d \in Devices, changes \in Payloads, last_pulled_at \in 0..now :
              Push(d, changes, last_pulled_at)
       /\ UNCHANGED <<mon, sessions>>
    \/ /\ now < MaxTime
       /\ \E d \in Devices, last_pulled_at \in 0..now : Pull(d, last_pulled_at)
       /\ UNCHANGED <<mon, sessions>>
    \/ Receive /\ UNCHANGED <<mon, sessions>>

Spec == Init /\ [][Next]_vars

\* -------------------------------------------------------------- the claims
\* The claims are stated of the response in flight: call holds the request,
\* the store before it (pre), the response, and the transaction as the
\* handler left it (tx).
Pushed == call.op = "push"

Applied == Pushed /\ ~call.conflict

Ids(tbl) == {r.id : r \in Rows(tbl)}

\* the rows the request in flight inserted
Inserted(tb) == {r \in Rows(db[tb]) : r.id \notin Ids(call.pre[tb])}

NewerOwnGame(s, d, last_pulled_at) ==
    \E g \in Rows(s.games) : g.device_id = d /\ g.last_modified > last_pulled_at

\* C1: a push made while some Game of the device has last_modified >
\* last_pulled_at returns ok = false with exactly one error and leaves all
\* four tables as they were.
C1_ConflictRejectsWholesale ==
    (Pushed /\ NewerOwnGame(call.pre, call.device, call.last_pulled_at)) =>
        /\ ~call.ok
        /\ Len(call.errors) = 1
        /\ db = call.pre

\* a rejected push whose payload would have written had it been applied
C1_Witness ==
    /\ Pushed
    /\ NewerOwnGame(call.pre, call.device, call.last_pulled_at)
    /\ ApplyAll(call.pre, call.device, call.changes, call.at).db # call.pre
    /\ db = call.pre

\* C2: has_conflict(device, last_pulled_at) is true exactly when some Game of
\* the device, soft-deleted or not, has last_modified > last_pulled_at; other
\* devices' Games and the other tables do not count, and neither does a Game
\* with last_modified = last_pulled_at.
C2_HasConflictIff ==
    /\ Pushed =>
           (call.conflict <=>
               NewerOwnGame(call.pre, call.device, call.last_pulled_at))
    /\ \A d \in Devices, ts \in 0..(now + 1) :
           CheckConflicts(db, d, ts) <=>
               (\E i \in 1..Len(db.games) :
                    /\ db.games[i].device_id = d
                    /\ db.games[i].last_modified > ts)

\* a push let through although a Game of the device was modified exactly at
\* last_pulled_at and another device's Game after it
C2_Witness ==
    /\ Applied
    /\ \E g \in Rows(call.pre.games) :
           g.device_id = call.device /\ g.last_modified = call.last_pulled_at
    /\ \E g \in Rows(call.pre.games) :
           g.device_id # call.device /\ g.last_modified > call.last_pulled_at

\* C4: a push whose application fails leaves the store as it was before the
\* push and returns ok = false with exactly one error; the committed store is
\* either the store before the push or the store with the whole batch
\* applied.
C4_AllOrNothing ==
    Pushed =>
        /\ call.tx.err # NONE => ~call.ok
        /\ ~call.ok => (db = call.pre /\ Len(call.errors) = 1)
        /\ call.ok => (call.tx.err = NONE /\ db = call.tx.db)

\* a push that had written rows when a lookup raised
C4_Witness ==
    /\ Applied
    /\ call.tx.err # NONE
    /\ call.tx.db # call.pre
    /\ db = call.pre

\* C10: no step removes a record from a table, and no step resets a
\* deletion flag.
C10_SoftDeleteIsTerminal ==
    [][\A tb \in Tables : \A r \in Rows(db[tb]) :
           \E q \in Rows(db'[tb]) :
               q.id = r.id /\ (r.is_deleted => q.is_deleted)]_vars

\* a committed push with an updated entry for a soft-deleted Game, which is
\* still soft-deleted
C10_Witness ==
    /\ Applied
    /\ call.ok
    /\ \E g \in Rows(call.pre.games) :
           /\ g.is_deleted
           /\ \E e \in Rows(call.changes.games.updated) : e.id = g.client_id
           /\ \E q \in Rows(db.games) :
                  q.id = g.id /\ q.is_deleted /\ q.name # g.name

Kinds == {"created", "updated", "deleted"}

\* the payload without the entries that Drop picks
Without(changes, Drop(_, _, _)) ==
    [tb \in Tables |->
        [k \in Kinds |-> SelectSeq(changes[tb][k], LAMBDA e : ~Drop(tb, k, e))]]

\* no row of the table carried the identity before the push and no created
\* entry of the push carries it
Unknown(tb, c) ==
    /\ ByClientId(call.pre[tb], c) = {}
    /\ \A e \in Rows(call.changes[tb].created) : e.id # c

\* the push in flight, had it been sent with another payload
Instead(changes) ==
    PushResult(call.pre, call.device, changes, call.last_pulled_at, call.at)

\* C5: a push that creates a Game, a Player and a Round of that Game, and a
\* Score of that Round and Player, inserts all four rows, the foreign keys
\* being the server identities of the rows inserted by the same push.
C5_ChainInserted ==
    Applied =>
        \A eg \in Rows(call.changes.games.created),
           ep \in Rows(call.changes.game_players.created),
           er \in Rows(call.changes.rounds.created),
           es \in Rows(call.changes.scores.created) :
            (/\ ep.game_id = eg.id
             /\ er.game_id = eg.id
             /\ es.round_id = er.id
             /\ es.player_id = ep.id)
            => \E G \in Inserted("games"), P \in Inserted("game_players"),
                  R \in Inserted("rounds"), S \in Inserted("scores") :
                   /\ G.client_id = eg.id
                   /\ P.client_id = ep.id /\ P.game_id = G.id
                   /\ R.client_id = er.id /\ R.game_id = G.id
                   /\ S.client_id = es.id /\ S.round_id = R.id /\ S.player_id = P.id

\* created children whose parent reference names no record
Orphan(tb, k, e) ==
    /\ k = "created"
    /\ \/ tb \in {"game_players", "rounds"} /\ Unknown("games", e.game_id)
       \/ /\ tb = "scores"
          /\ Unknown("rounds", e.round_id) \/ Unknown("game_players", e.player_id)

HasEntry(Pick(_, _, _)) ==
    \E tb \in Tables, k \in Kinds :
        \E e \in Rows(call.changes[tb][k]) : Pick(tb, k, e)

\* the created entries of a table with an identity that are no orphans
Kept(tb, c) ==
    {i \in 1..Len(call.changes[tb].created) :
        /\ call.changes[tb].created[i].id = c
        /\ ~Orphan(tb, "created", call.changes[tb].created[i])}

\* no row was inserted for an orphan: under its identity there are at most
\* the rows of the other created entries with that identity
OrphansSkipped ==
    \A tb \in Tables : \A e \in Rows(call.changes[tb].created) :
        Orphan(tb, "created", e) =>
            Cardinality({r \in Inserted(tb) : r.client_id = e.id})
                <= Cardinality(Kept(tb, e.id))

\* C6: a push that passes the gate and holds a created Player or Round whose
\* game_id, or a created Score whose round_id or player_id, names no record
\* does not insert that record, applies and commits every other entry, and
\* returns ok = true with no error.
C6_ReferentialSkip ==
    (Applied /\ HasEntry(Orphan)) =>
        /\ call.ok
        /\ call.errors = <<>>
        /\ db = Instead(Without(call.changes, Orphan)).db
        /\ OrphansSkipped

\* Round entries that name a caller who is no Player
LostCaller(tb, k, e) ==
    /\ tb = "rounds"
    /\ k \in {"created", "updated"}
    /\ e.caller_id # NONE
    /\ Unknown("game_players", e.caller_id)

\* the payload with those entries sent without a caller
CallerDropped(changes) ==
    [changes EXCEPT
        !.rounds.created =
            MapSeq(@, LAMBDA e : IF LostCaller("rounds", "created", e)
                                 THEN [e EXCEPT !.caller_id = NONE] ELSE e),
        !.rounds.updated =
            MapSeq(@, LAMBDA e : IF LostCaller("rounds", "updated", e)
                                 THEN [e EXCEPT !.caller_id = NONE] ELSE e)]

Unmatched(tb, k, e) == k = "updated" /\ Unknown(tb, e.id)

\* C8: an updated entry whose client identity matches no record of its table
\* creates no record and changes no record, and the push returns ok = true
\* with no error.
C8_UnmatchedUpdateDropped ==
    (Applied /\ HasEntry(Unmatched)) =>
        /\ call.ok
        /\ call.errors = <<>>
        /\ db = Instead(Without(call.changes, Unmatched)).db
        /\ \A tb \in Tables : \A e \in Rows(call.changes[tb].updated) :
               Unmatched(tb, "updated", e) => ByClientId(db[tb], e.id) = {}

\* deleted entries whose identity names no record of their table
Absent(tb, k, e) == k = "deleted" /\ Unknown(tb, e)

DeletedOnly(changes) == Without(changes, LAMBDA tb, k, e : k # "deleted")

\* C9: a deleted entry for an identity with no record is ignored and the push
\* returns ok = true; pushing the deleted lists of a committed push again,
\* with a watermark that passes the gate, returns ok = true and leaves every
\* record as it is.
C9_DeleteIdempotent ==
    /\ (Applied /\ HasEntry(Absent)) =>
           /\ call.ok
           /\ call.errors = <<>>
           /\ db = Instead(Without(call.changes, Absent)).db
    /\ (Applied /\ call.ok) =>
           \A ts \in 0..(now + 1) :
               LET again == PushResult(db, call.device, DeletedOnly(call.changes),
                                       ts, now + 1)
               IN  ~again.conflict =>
                       (again.ok /\ again.errors = <<>> /\ again.db = db)

\* ------------------------------------------------- the conflict-gate scenario
OwnGames(s, d) == {g \in Rows(s.games) : g.device_id = d}

\* What the clients remember once the response in flight has arrived:
\*   pulled   the device has pulled, wm[d] is the timestamp it got
\*   changed  a push of the device has since committed a change to its Games
\*   stale    the payloads it then pushed with that watermark, and that the
\*            gate rejected
\*   retry    after its next pull: those payloads
\*   quiet    no write was committed since its last pull
\*   script   how many requests of the end-to-end scenario it has made, with
\*            no other request in between, on a store that was empty at its
\*            first one
ScriptRequest(k) ==
    CASE k = 1 -> /\ call.op = "pull" /\ call.last_pulled_at = 0
                  /\ call.pre = EmptyStore
      [] k = 2 -> /\ call.op = "push" /\ call.last_pulled_at = 0
                  /\ call.changes = One("games", "created", GameSync("g1", 1))
      [] k = 3 -> call.op = "pull" /\ call.last_pulled_at = 0
      [] k = 4 -> /\ call.op = "push" /\ call.last_pulled_at = wm[call.device]
                  /\ call.changes = One("games", "deleted", "g1")
      [] k = 5 -> call.op = "pull" /\ call.last_pulled_at = wm[call.device]
      [] OTHER -> FALSE

\* the request in flight is the k-th request of the scenario
ScriptStep(k) ==
    /\ call # Idle
    /\ k = 1 \/ mon[call.device].script = k - 1
    /\ ScriptRequest(k)

NextScript ==
    IF \E k \in 2..5 : ScriptStep(k)
    THEN mon[call.device].script + 1
    ELSE IF ScriptStep(1) THEN 1 ELSE 0

RememberGate ==
    LET d == call.device
    IN  IF call.op = "pull"
        THEN [mon EXCEPT ![d] = [pulled |-> TRUE, changed |-> FALSE, stale |-> {},
                                 retry |-> mon[d].stale, quiet |-> TRUE,
                                 script |-> mon[d].script]]
        ELSE LET wrote == db # call.pre
                 own == call.ok /\ OwnGames(db, d) # OwnGames(call.pre, d)
                 seen == IF wrote
                         THEN [e \in Devices |->
                                  [mon[e] EXCEPT !.quiet = FALSE, !.retry = {}]]
                         ELSE mon
             IN  [seen EXCEPT
                     ![d].changed = @ \/ (mon[d].pulled /\ own),
                     ![d].stale = IF /\ call.conflict
                                     /\ mon[d].changed
                                     /\ call.last_pulled_at = wm[d]
                                  THEN @ \cup {call.changes} ELSE @]

Remember ==
    [e \in Devices |->
        [RememberGate[e] EXCEPT
            !.script = IF e = call.device THEN NextScript ELSE 0]]

NextGate ==
    \/ /\ now < MaxGateTime
       /\ \E d \in Devices, changes \in GatePayloads, last_pulled_at \in 0..now :
              Push(d, changes, last_pulled_at)
       /\ UNCHANGED <<mon, sessions>>
    \/ /\ now < MaxGateTime
       /\ \E d \in Devices : \E last_pulled_at \in {0, wm[d]} :
              Pull(d, last_pulled_at)
       /\ UNCHANGED <<mon, sessions>>
    \/ Receive /\ mon' = Remember /\ UNCHANGED sessions

SpecGate == Init /\ [][NextGate]_vars

\* C3: after a pull with watermark T and a committed push of the device that
\* changed one of its Games, every push of the device with last_pulled_at = T
\* is rejected; after its next pull, with no write in between, the rejected
\* payload pushed with the new watermark returns ok = true.
C3_ConflictGateSequence ==
    call.op = "push" =>
        LET m == mon[call.device]
        IN  /\ (m.changed /\ call.last_pulled_at = wm[call.device]) => ~call.ok
            /\ (m.quiet /\ call.changes \in m.retry
                    /\ call.last_pulled_at = wm[call.device]) => call.ok

\* the first half of C3 alone
C3_StaleRejected ==
    call.op = "push" =>
        ((mon[call.device].changed /\ call.last_pulled_at = wm[call.device])
            => call.conflict)

\* ----------------------------------------------------------- identities
\* C11: over every step, each record of each table keeps its server identity
\* and its client identity (and its place in the table); no push changes the
\* id or client_id of an existing record.
C11_IdentitiesStable ==
    [][\A tb \in Tables : \A i \in 1..Len(db[tb]) :
           /\ i <= Len(db'[tb])
           /\ db'[tb][i].id = db[tb][i].id
           /\ db'[tb][i].client_id = db[tb][i].client_id]_vars

\* a committed push of another device than the owner that overwrote the
\* fields of a Game, which is still under its two identities
C11_Witness ==
    /\ Applied
    /\ call.ok
    /\ \E i \in 1..Len(call.pre.games) :
           /\ call.pre.games[i].device_id # call.device
           /\ db.games[i].name # call.pre.games[i].name
           /\ db.games[i].id = call.pre.games[i].id
           /\ db.games[i].client_id = call.pre.games[i].client_id

\* ------------------------------------------------------------------ pulls
Pulled == call.op = "pull"

\* the lower bound of the pull in flight
PullSince ==
    IF call.last_pulled_at > 0 THEN FromTimestamp(call.last_pulled_at)
    ELSE DatetimeMin

\* the Games of the device, and the Players, Rounds and Scores under its
\* live Games (a Score also under a live Round)
InScope(s, d, tb, r) ==
    CASE tb = "games" -> r.device_id = d
      [] tb \in {"game_players", "rounds"} -> r.game_id \in GetDeviceGameIds(s, d)
      [] tb = "scores" -> r.round_id \in GetRoundIds(s, GetDeviceGameIds(s, d))

\* the records the pull in flight selected
Selected(tb) ==
    {r \in Rows(call.pre[tb]) :
        InScope(call.pre, call.device, tb, r) /\ r.last_modified > PullSince}

\* the public ids listed in a bucket of the pull in flight
BucketIds(tb, k) ==
    IF k = "deleted" THEN Rows(call.changes[tb].deleted)
    ELSE {e.id : e \in Rows(call.changes[tb][k])}

BucketOf(r) ==
    IF r.is_deleted THEN "deleted"
    ELSE IF r.client_id = NONE THEN "created" ELSE "updated"

Entries(tb) ==
    Len(call.changes[tb].created) + Len(call.changes[tb].updated)
        + Len(call.changes[tb].deleted)

\* every selected record has one entry, in the bucket its flag and its
\* client identity decide
C12_EachRecordOneBucket ==
    Pulled =>
        \A tb \in Tables :
            /\ Entries(tb) = Cardinality(Selected(tb))
            /\ \A r \in Selected(tb) : SyncId(r) \in BucketIds(tb, BucketOf(r))

\* C12: every record a pull selects lands in exactly one bucket, decided by
\* its deletion flag and its client identity; a live record with a client
\* identity is listed as updated and not as created, and no id is listed in
\* two buckets of the same pull.
C12_ClassifiedOnce ==
    Pulled =>
        \A tb \in Tables :
            /\ Entries(tb) = Cardinality(Selected(tb))
            /\ \A r \in Selected(tb) :
                   /\ SyncId(r) \in BucketIds(tb, BucketOf(r))
                   /\ (~r.is_deleted /\ r.client_id # NONE) =>
                          SyncId(r) \notin BucketIds(tb, "created")
            /\ \A k1, k2 \in Kinds :
                   k1 # k2 => BucketIds(tb, k1) \cap BucketIds(tb, k2) = {}

\* the Games of the device that were created after the lower bound of the
\* pull in flight and are soft-deleted by now
Tombstones ==
    {g \in Rows(call.pre.games) :
        /\ g.device_id = call.device
        /\ g.created_at > call.last_pulled_at
        /\ g.is_deleted}

\* every such Game is listed in games.deleted
C13_TombstoneListed ==
    Pulled => \A g \in Tombstones : SyncId(g) \in BucketIds("games", "deleted")

\* C13: a pull with since = T1 lists the public id of a Game that was created
\* and soft-deleted after T1 in games.deleted, and in neither games.created
\* nor games.updated.
C13_TombstoneOnly ==
    Pulled =>
        \A g \in Tombstones :
            /\ SyncId(g) \in BucketIds("games", "deleted")
            /\ SyncId(g) \notin BucketIds("games", "created")
            /\ SyncId(g) \notin BucketIds("games", "updated")

\* the live Games of a device in the store the pull in flight read
LiveGames(d) == {g \in Rows(call.pre.games) : g.device_id = d /\ ~g.is_deleted}

LiveInScope(tb) ==
    {r \in Rows(call.pre[tb]) :
        InScope(call.pre, call.device, tb, r) /\ ~r.is_deleted}

NothingPulled ==
    \A tb \in Tables : call.changes[tb] = NoChanges

ClientOf(tb, server_id) ==
    (CHOOSE r \in Rows(call.pre[tb]) : r.id = server_id).client_id

\* a nullable reference as it should be sent
Public(tb, server_id) ==
    IF server_id = NULL THEN NONE ELSE ClientOf(tb, server_id)

\* the records a pull sent in full
Sent(tb) == Rows(call.changes[tb].created) \cup Rows(call.changes[tb].updated)

\* every id a pull returns is the client identity a selected record was
\* pushed with, and every foreign-key field of a returned record is the
\* client identity of the record that the stored server identity refers to
\* (none for a null reference); in the store, every foreign key is null or
\* the server identity of a record of the referenced table
C17_ReferencesTranslated ==
    /\ Pulled =>
           /\ \A tb \in Tables : \A k \in Kinds :
                  BucketIds(tb, k) \subseteq {r.client_id : r \in Selected(tb)}
           /\ \A e \in Sent("games") : \E r \in Selected("games") :
                  /\ e.id = r.client_id
                  /\ e.winner_id = Public("game_players", r.winner_id)
           /\ \A e \in Sent("game_players") : \E r \in Selected("game_players") :
                  /\ e.id = r.client_id
                  /\ e.game_id = ClientOf("games", r.game_id)
           /\ \A e \in Sent("rounds") : \E r \in Selected("rounds") :
                  /\ e.id = r.client_id
                  /\ e.game_id = ClientOf("games", r.game_id)
                  /\ e.caller_id = Public("game_players", r.caller_id)
           /\ \A e \in Sent("scores") : \E r \in Selected("scores") :
                  /\ e.id = r.client_id
                  /\ e.round_id = ClientOf("rounds", r.round_id)
                  /\ e.player_id = ClientOf("game_players", r.player_id)
    /\ \A r \in Rows(db.game_players) : r.game_id \in Ids(db.games)
    /\ \A r \in Rows(db.rounds) :
           /\ r.game_id \in Ids(db.games)
           /\ r.caller_id \in Ids(db.game_players) \cup {NULL}
    /\ \A r \in Rows(db.scores) :
           /\ r.round_id \in Ids(db.rounds)
           /\ r.player_id \in Ids(db.game_players)
    /\ \A r \in Rows(db.games) : r.winner_id \in Ids(db.game_players) \cup {NULL}

\* a committed push that names as the winner of a Game a Player that the
\* store held before the push leaves the Game with the server identity of
\* that Player as its winner_id
WinnerStored ==
    (Applied /\ call.ok) =>
        \A e \in Rows(call.changes.games.created)
                    \cup Rows(call.changes.games.updated) :
            (e.winner_id # NONE /\ Found(call.pre.game_players, e.winner_id)) =>
                \A g \in Rows(db.games) :
                    (g.client_id = e.id /\ g.last_modified = call.at) =>
                        g.winner_id = RowOf(call.pre.game_players, e.winner_id).id

\* C17: every id and every foreign-key field a pull returns (Player.game_id,
\* Round.game_id, Round.caller_id, Score.round_id, Score.player_id,
\* Game.winner_id) is the client identity of the record and of the record it
\* refers to, and the store holds the same foreign keys as server
\* identities.
C17_IdentityRoundTrip == C17_ReferencesTranslated /\ WinnerStored

\* ----------------------------------------------------------- watermarks
\* C18: the timestamp of a pull is no earlier than the watermark the device
\* pulled with and no earlier than the timestamp of its previous pull; a pull
\* with the timestamp of the previous pull of the device, no write having
\* been committed since, returns empty buckets in all four tables.
C18_WatermarkMonotone ==
    Pulled =>
        /\ call.timestamp >= call.last_pulled_at
        /\ call.timestamp >= wm[call.device]
        /\ (mon[call.device].quiet /\ call.last_pulled_at = wm[call.device])
               => NothingPulled

\* the second of two pulls with no write in between, by a device that has
\* records in all four tables
C18_Witness ==
    /\ Pulled
    /\ mon[call.device].quiet
    /\ call.last_pulled_at = wm[call.device]
    /\ call.timestamp > wm[call.device]
    /\ \A tb \in Tables :
           PullResult(call.pre, call.device, 0, call.at).changes[tb] # NoChanges
    /\ NothingPulled

\* ------------------------------------------------------------- ownership
\* the server identity of the Game a record belongs to
GameOf(s, tb, r) ==
    CASE tb = "games" -> r.id
      [] tb \in {"game_players", "rounds"} -> r.game_id
      [] tb = "scores" ->
            (CHOOSE x \in Rows(s.rounds) : x.id = r.round_id).game_id

OwnerOf(s, tb, r) ==
    (CHOOSE g \in Rows(s.games) : g.id = GameOf(s, tb, r)).device_id

\* the records of a table under the Games of a device
Owned(s, d, tb) == {r \in Rows(s[tb]) : OwnerOf(s, tb, r) = d}

\* C19: a pull returns entries only for records under the Games of the
\* pulling device, at most one a record modified after since; and a push that
\* leaves every record under the Games of a device as it was leaves the
\* result of every pull of that device as it was.
C19_PullIsolation ==
    /\ Pulled =>
           \A tb \in Tables :
               /\ \A k \in Kinds :
                      BucketIds(tb, k) \subseteq
                          {r.client_id : r \in Owned(call.pre, call.device, tb)}
               /\ Entries(tb) <=
                      Cardinality({r \in Owned(call.pre, call.device, tb) :
                                      r.last_modified > PullSince})
    /\ Pushed =>
           \A d \in Devices :
               (\A tb \in Tables : Owned(db, d, tb) = Owned(call.pre, d, tb)) =>
                   \A since \in 0..now :
                       PullResult(db, d, since, now).changes =
                           PullResult(call.pre, d, since, now).changes

\* a pull that returned a Game of the device and nothing else, while another
\* device has a Game with a Player, a Round and a Score modified after since
C19_Witness ==
    /\ Pulled
    /\ Entries("games") > 0
    /\ \E d \in Devices \ {call.device} :
           /\ \A tb \in Tables : Owned(call.pre, d, tb) # {}
           /\ \E r \in Owned(call.pre, d, "scores") :
                  r.last_modified > PullSince
    /\ \A tb \in Tables \ {"games"} : call.changes[tb] = NoChanges

\* C20: a push leaves every Game of another device than the pushing one as
\* it was: fields, deletion flag and owner.
C20_GameOwnership ==
    Pushed =>
        \A i \in 1..Len(call.pre.games) :
            call.pre.games[i].device_id # call.device =>
                db.games[i] = call.pre.games[i]

\* ------------------------------------------------- child writes and Games
ChildTables == {"game_players", "rounds", "scores"}

\* the records of a table that the push in flight inserted or changed
Written(tb) ==
    {r \in Rows(db[tb]) : r \notin Rows(call.pre[tb])}

\* C21: a committed push that inserts, updates or soft-deletes a Player, a
\* Round or a Score sets last_modified of the Game the record belongs to to
\* the time of the push, so a later push of the owning device with a
\* watermark older than the child write is rejected by the gate.
C21_ChildWriteTouchesGame ==
    (Applied /\ call.ok) =>
        \A tb \in ChildTables : \A r \in Written(tb) :
            /\ \A g \in Rows(db.games) :
                   g.id = GameOf(db, tb, r) => g.last_modified = call.at
            /\ \A ts \in 0..(call.at - 1) :
                   CheckConflicts(db, OwnerOf(db, tb, r), ts)

\* a child record that a push wrote carries the time of the push
C21_ChildStamped ==
    (Applied /\ call.ok) =>
        \A tb \in ChildTables : \A r \in Written(tb) : r.last_modified = call.at


\* ------------------------------------------------------------------ retries
\* C22: in every reachable state each table holds at most one record for a
\* client identity, so pushing a create payload a second time (with a
\* watermark that passes the gate) inserts no second record.
C22_NoDuplicateRecords ==
    \A tb \in Tables : \A i, j \in 1..Len(db[tb]) :
        db[tb][i].client_id = db[tb][j].client_id => i = j


\* ------------------------------------------------------------ last_modified
\* the public ids a pull of a device lists for a table, in any bucket
Listed(s, d, since, t, tb) ==
    LET c == PullResult(s, d, since, t).changes[tb]
    IN  {e.id : e \in Rows(c.created) \cup Rows(c.updated)} \cup Rows(c.deleted)

Mutable(tb, x) ==
    CASE tb = "games" -> <<x.name, x.target_score, x.status, x.ended_at>>
      [] tb = "game_players" -> <<x.name, x.position, x.current_total>>
      [] tb = "rounds" -> <<x.round_number>>
      [] tb = "scores" -> <<x.raw_score, x.bonus_applied, x.final_score,
                            x.total_after>>

\* the last updated entry of the push in flight for an identity
LastUpdated(tb, c) ==
    LET list == call.changes[tb].updated
        at == {i \in 1..Len(list) : list[i].id = c}
    IN  list[CHOOSE i \in at : \A j \in at : j <= i]

\* a record is stored under the identity once the push is over
Stored(tb, c) == \E r \in Rows(db[tb]) : r.client_id = c

\* the entries of a table are applied created first, then updated in the
\* order of the list, then deleted
AppliedInOrder ==
    \A tb \in Tables :
        /\ \A u \in Rows(call.changes[tb].updated) :
               \A r \in Rows(db[tb]) :
                   r.client_id = u.id =>
                       Mutable(tb, r) = Mutable(tb, LastUpdated(tb, u.id))
        /\ \A c \in Rows(call.changes[tb].deleted) :
               \A r \in Rows(db[tb]) : r.client_id = c => r.is_deleted

\* C24: within each table of a push the created entries are applied first,
\* then the updated entries, then the deleted entries, each list in the
\* caller's order: a Game that is created and also listed in updated and
\* deleted of the same push is stored with the updated values and the
\* deletion flag set, and of two updated entries for an identity the later
\* one decides the stored values.
C24_OrderWithinTable ==
    Applied =>
        /\ \A e \in Rows(call.changes.games.created) :
               (/\ \E u \in Rows(call.changes.games.updated) : u.id = e.id
                /\ e.id \in Rows(call.changes.games.deleted))
               => \E r \in Inserted("games") : r.client_id = e.id
        /\ \A tb \in Tables : \A u \in Rows(call.changes[tb].updated) :
               ~Unknown(tb, u.id) => call.ok
        /\ call.ok => AppliedInOrder

\* what holds of every push: a push that commits has applied its entries in
\* that order
C24_OrderOfCommitted ==
    (Applied /\ call.ok) =>
        /\ AppliedInOrder
        /\ \A e \in Rows(call.changes.games.created) :
               \E r \in Inserted("games") : r.client_id = e.id


\* -------------------------------------------------------------- pull scope
\* the Game of a record of the store that the pull in flight read
GameRow(tb, r) ==
    CHOOSE g \in Rows(call.pre.games) : g.id = GameOf(call.pre, tb, r)

\* the Game of the record is a live Game of the pulling device and, for a
\* Score, its Round is live
Reachable(tb, r) ==
    /\ GameRow(tb, r).device_id = call.device
    /\ ~GameRow(tb, r).is_deleted
    /\ tb = "scores" =>
           \A x \in Rows(call.pre.rounds) : x.id = r.round_id => ~x.is_deleted

\* C25: a pull returns a Player or a Round only if its Game is a Game of the
\* device that is not soft-deleted, and a Score only if its Round is not
\* soft-deleted and belongs to such a Game; it has one entry for each such
\* record modified after since and no other entry, so it returns nothing of
\* a soft-deleted Game but the Game itself, in games.deleted.
C25_PullScope ==
    Pulled =>
        /\ \A tb \in ChildTables :
               LET scope == {r \in Rows(call.pre[tb]) :
                                Reachable(tb, r) /\ r.last_modified > PullSince}
               IN  /\ Entries(tb) = Cardinality(scope)
                   /\ \A k \in Kinds :
                          BucketIds(tb, k) \subseteq
                              {r.client_id :
                                  r \in {x \in scope : BucketOf(x) = k}}
        /\ \A g \in Rows(call.pre.games) :
               (/\ g.device_id = call.device
                /\ g.is_deleted
                /\ g.last_modified > PullSince)
               => g.client_id \in BucketIds("games", "deleted")

\* a pull with since = 0 of a device whose only Game is soft-deleted and has
\* a Player, a Round and a Score: the Game is listed in games.deleted and the
\* other three tables are empty
C25_Witness ==
    /\ Pulled
    /\ call.last_pulled_at = 0
    /\ \A tb \in Tables : Owned(call.pre, call.device, tb) # {}
    /\ \A g \in Rows(call.pre.games) : g.device_id = call.device => g.is_deleted
    /\ call.changes.games.deleted # <<>>
    /\ \A tb \in ChildTables : call.changes[tb] = NoChanges


\* ------------------------------------------------------------- no cascade
\* C26: a soft delete is not passed on: a push leaves every table for which
\* it has no entry as it was, so a push that soft-deletes a Game leaves the
\* deletion flag, the fields and last_modified of the Game's Players, Rounds
\* and Scores unchanged, and a push that soft-deletes a Round or a Player
\* leaves its Scores unchanged.
C26_NoCascade ==
    Pushed =>
        \A tb \in Tables :
            call.changes[tb] = NoChanges => db[tb] = call.pre[tb]

\* a committed push with nothing but a deleted entry that soft-deleted a
\* live Game, a Player or a Round to which live records refer
C26_Witness ==
    /\ Applied
    /\ call.ok
    /\ \E tb \in {"games", "game_players", "rounds"} :
           /\ Len(call.changes[tb].deleted) = 1
           /\ call.changes = One(tb, "deleted", call.changes[tb].deleted[1])
           /\ \E i \in 1..Len(call.pre[tb]) :
                  /\ ~call.pre[tb][i].is_deleted
                  /\ db[tb][i].is_deleted
                  /\ \/ /\ tb = "games"
                        /\ \E r \in Rows(db.game_players) \cup Rows(db.rounds) :
                               r.game_id = db[tb][i].id /\ ~r.is_deleted
                     \/ /\ tb = "rounds"
                        /\ \E r \in Rows(db.scores) :
                               r.round_id = db[tb][i].id /\ ~r.is_deleted
                     \/ /\ tb = "game_players"
                        /\ \E r \in Rows(db.scores) :
                               r.player_id = db[tb][i].id /\ ~r.is_deleted


\* ------------------------------------------------------ pulls are read-only
\* C27: a pull changes no record of any table, and the changes it returns
\* are a function of the store, the device and since alone: whatever pulls
\* and pushes came before, and whatever the time, two pulls with the same
\* since against the same store return the same changes.
C27_PullReadOnly ==
    [][call'.op = "pull" =>
           /\ db' = db
           /\ \A t \in 0..now' :
                  call'.changes =
                      PullResult(db, call'.device, call'.last_pulled_at, t).changes]_vars

\* a pull with since = 0 that returned records to a device that has pulled
\* before and got a later watermark
C27_Witness ==
    /\ Pulled
    /\ wm[call.device] > call.last_pulled_at
    /\ \E g \in Rows(call.pre.games) :
           g.device_id = call.device /\ g.last_modified < wm[call.device]
    /\ Entries("games") > 0
    /\ db = call.pre


\* ------------------------------------------------------- field round trip
\* the client-supplied fields of a wire record
WireFields(tb, x) ==
    CASE tb = "games" -> <<x.name, x.target_score, x.status, x.winner_id,
                           x.started_at, x.ended_at>>
      [] tb = "game_players" -> <<x.name, x.position, x.current_total>>
      [] tb = "rounds" -> <<x.round_number, x.caller_id>>
      [] tb = "scores" -> <<x.raw_score, x.bonus_applied, x.final_score,
                            x.total_after>>

\* those of them that the created and the updated loop of the table store
StoredFields(tb, k, x, e) ==
    CASE tb = "games" /\ k = "created" ->
             <<x.name, x.target_score, x.status, x.started_at>>
      [] tb = "games" /\ k = "updated" ->
             <<x.name, x.target_score, x.status, x.ended_at>>
      [] tb = "rounds" ->
             IF e.caller_id # NONE THEN <<x.round_number, x.caller_id>>
             ELSE <<x.round_number>>
      [] OTHER -> WireFields(tb, x)

\* a reference of an entry to a Player is none or names one Player
Names(c) == c = NONE \/ Found(db.game_players, c)

\* the created or updated entry is the only entry of the push in flight for
\* its identity, its references to Players are valid, and the push has
\* written the one record with that identity, which is live and in the pull
\* scope of its owner
RoundTripCase(tb, k, e) ==
    /\ Cardinality({i \in 1..Len(call.changes[tb].created) :
                       call.changes[tb].created[i].id = e.id})
         + Cardinality({i \in 1..Len(call.changes[tb].updated) :
                           call.changes[tb].updated[i].id = e.id}) = 1
    /\ e.id \notin Rows(call.changes[tb].deleted)
    /\ tb = "games" => Names(e.winner_id)
    /\ tb = "rounds" => Names(e.caller_id)
    /\ Found(db[tb], e.id)
    /\ LET r == RowOf(db[tb], e.id)
       IN  /\ ~r.is_deleted
           /\ r.last_modified = call.at
           /\ InScope(db, OwnerOf(db, tb, r), tb, r)

\* the entries that the pulls of the owner with an earlier since return for
\* the record
PulledBack(tb, e, since) ==
    LET r == RowOf(db[tb], e.id)
        c == PullResult(db, OwnerOf(db, tb, r), since, call.at + 1).changes[tb]
    IN  {x \in Rows(c.created) \cup Rows(c.updated) : x.id = e.id}

\* C28: after a committed push that created or updated a record, a pull
\* with an earlier since returns the record with every client-supplied field
\* as it was pushed: name, target_score, status, winner_id, started_at and
\* ended_at of a Game, round_number and caller_id of a Round (a null
\* caller_id clearing the stored caller), name, position and current_total of
\* a Player, and the four score fields of a Score.
C28_FieldRoundTrip ==
    (Applied /\ call.ok) =>
        \A tb \in Tables : \A k \in {"created", "updated"} :
            \A e \in Rows(call.changes[tb][k]) :
                RoundTripCase(tb, k, e) =>
                    \A since \in 0..(call.at - 1) :
                        /\ PulledBack(tb, e, since) # {}
                        /\ \A x \in PulledBack(tb, e, since) :
                               WireFields(tb, x) = WireFields(tb, e)

\* what holds: the record is returned, with the fields that the loops store
C28_StoredFieldsRoundTrip ==
    (Applied /\ call.ok) =>
        \A tb \in Tables : \A k \in {"created", "updated"} :
            \A e \in Rows(call.changes[tb][k]) :
                RoundTripCase(tb, k, e) =>
                    \A since \in 0..(call.at - 1) :
                        /\ PulledBack(tb, e, since) # {}
                        /\ \A x \in PulledBack(tb, e, since) :
                               StoredFields(tb, k, x, e) = StoredFields(tb, k, e, e)


\* ------------------------------------------------------ overlapping requests
\* Every request has an AsyncSession and a transaction of its own.  A
\* statement reads the rows committed when it runs; func.now() is the time
\* at which the transaction began, which is the time of its first statement.
\* The statements of a handler that follow one another without a commit of
\* another session in between are taken in one step.
Sessions == {1, 2}

ConcPayloads ==
    {One("games", "created", GameSync("g1", 1)),
     One("games", "updated", GameSync("g1", 2)),
     One("games", "deleted", "g1")}

\* what is remembered of the pulls of a device:
\*   chain   all its pulls were made one after the other, each with the
\*           timestamp that the one before returned (the first with 0)
\*   seen    the Games its pulls returned, with their last_modified
NoPulls == [chain |-> TRUE, seen |-> {}]

InitConc ==
    /\ db = EmptyStore
    /\ now = 0
    /\ wm = [d \in Devices |-> 0]
    /\ call = Idle
    /\ mon = [d \in Devices |-> NoPulls]
    /\ sessions = [k \in Sessions |-> Idle]

Open(k, op) == sessions[k].op = op /\ sessions[k].phase = "open"

Done(k, op) == sessions[k].op = op /\ sessions[k].phase = "done"

\* push up to the conflict check, the first statement of its transaction
PushBegin(k, d, changes, last_pulled_at) ==
    LET t == now + 1
    IN  /\ sessions[k] = Idle
        /\ now' = t
        /\ sessions' =
               [sessions EXCEPT ![k] =
                   IF CheckConflicts(db, d, last_pulled_at)
                   THEN [op |-> "push", phase |-> "done", device |-> d,
                         last_pulled_at |-> last_pulled_at, changes |-> changes,
                         begun |-> t, at |-> t, pre |-> db, ok |-> FALSE,
                         errors |-> <<ConflictMessage>>, conflict |-> TRUE,
                         wrote |-> FALSE]
                   ELSE [op |-> "push", phase |-> "open", device |-> d,
                         last_pulled_at |-> last_pulled_at, changes |-> changes,
                         begun |-> t]]
        /\ UNCHANGED <<db, wm, mon, call>>

\* push from the try block on: the four _apply_*_changes and the commit, or
\* the rollback
PushCommit(k) ==
    LET q == sessions[k]
        tx == ApplyAll(db, q.device, q.changes, q.begun)
        ok == tx.err = NONE
        post == IF ok THEN Commit(db, tx) ELSE Rollback(db, tx)
    IN  /\ Open(k, "push")
        /\ WithinBounds(tx.db)
        /\ db' = post
        /\ sessions' =
               [sessions EXCEPT ![k] =
                   [op |-> "push", phase |-> "done", device |-> q.device,
                    last_pulled_at |-> q.last_pulled_at, changes |-> q.changes,
                    begun |-> q.begun, at |-> now, pre |-> db, ok |-> ok,
                    errors |-> IF ok THEN <<>> ELSE <<tx.err>>,
                    conflict |-> FALSE,
                    wrote |-> OwnGames(post, q.device) # OwnGames(db, q.device)]]
        /\ UNCHANGED <<now, wm, mon, call>>

\* pull up to the reading of the clock
PullBegin(k, d, last_pulled_at) ==
    LET t == now + 1
    IN  /\ sessions[k] = Idle
        /\ now' = t
        /\ sessions' =
               [sessions EXCEPT ![k] =
                   [op |-> "pull", phase |-> "open", device |-> d,
                    last_pulled_at |-> last_pulled_at, timestamp |-> t]]
        /\ mon' = [mon EXCEPT ![d].chain =
                      /\ @
                      /\ last_pulled_at = wm[d]
                      /\ \A j \in Sessions :
                             ~(sessions[j].op = "pull" /\ sessions[j].device = d)]
        /\ UNCHANGED <<db, wm, call>>

\* pull from _pull_games on: the queries
PullQuery(k) ==
    LET q == sessions[k]
        r == PullResult(db, q.device, q.last_pulled_at, q.timestamp)
        ids == {e.id : e \in Rows(r.changes.games.created)
                               \cup Rows(r.changes.games.updated)}
                   \cup Rows(r.changes.games.deleted)
    IN  /\ Open(k, "pull")
        /\ sessions' =
               [sessions EXCEPT ![k] =
                   [op |-> "pull", phase |-> "done", device |-> q.device,
                    last_pulled_at |-> q.last_pulled_at, pre |-> db,
                    changes |-> r.changes, timestamp |-> r.timestamp]]
        /\ mon' = [mon EXCEPT ![q.device].seen =
                      @ \cup {<<g.id, g.last_modified>> :
                                 g \in {x \in OwnGames(db, q.device) :
                                           SyncId(x) \in ids}}]
        /\ UNCHANGED <<db, now, wm, call>>

\* The client takes the response of a session; the timestamp of a pull
\* becomes its watermark.
Respond(k) ==
    /\ sessions[k] # Idle
    /\ sessions[k].phase = "done"
    /\ sessions' = [sessions EXCEPT ![k] = Idle]
    /\ wm' = IF sessions[k].op = "pull"
             THEN [wm EXCEPT ![sessions[k].device] = sessions[k].timestamp]
             ELSE wm
    /\ UNCHANGED <<db, now, mon, call>>

NextConc ==
    \/ /\ now < MaxConcTime
       /\ \E k \in Sessions, d \in Devices, changes \in ConcPayloads,
             last_pulled_at \in 0..now :
              PushBegin(k, d, changes, last_pulled_at)
    \/ \E k \in Sessions : PushCommit(k)
    \/ /\ now < MaxConcTime
       /\ \E k \in Sessions, d \in Devices : \E last_pulled_at \in {0, wm[d]} :
              PullBegin(k, d, last_pulled_at)
    \/ \E k \in Sessions : PullQuery(k)
    \/ \E k \in Sessions : Respond(k)

SpecConc == InitConc /\ [][NextConc]_vars

\* C29: while a device pulls with the timestamp of its previous pull, one
\* pull after the other, no committed write to a Game it owns is lost: a Game
\* that no later pull of the chain can select, its last_modified being no
\* later than the watermark of the device, has been returned by a pull of
\* the chain as it is now.  This covers a write stamped before a pull read
\* the clock and committed after that pull ran its queries.
C29_NoChangeLost ==
    \A d \in Devices :
        mon[d].chain =>
            \A g \in OwnGames(db, d) :
                g.last_modified <= wm[d] =>
                    <<g.id, g.last_modified>> \in mon[d].seen

\* what holds: a Game that was committed when a pull of the chain ran its
\* queries, and was modified after since, has been returned by that pull
C29_NoChangeLostBefore ==
    \A d \in Devices : \A k \in Sessions :
        (mon[d].chain /\ Done(k, "pull") /\ sessions[k].device = d) =>
            \A g \in OwnGames(sessions[k].pre, d) :
                (g.last_modified > wm[d] /\ sessions[k].last_pulled_at = wm[d]) =>
                    <<g.id, g.last_modified>> \in mon[d].seen

\* two pushes overlap: each began before the other was over
Overlap(j, k) ==
    /\ sessions[j].begun <= sessions[k].at
    /\ sessions[k].begun <= sessions[j].at

\* C30: the conflict gate holds when pushes overlap: no push commits while
\* the store holds, at its commit, a Game of the device with last_modified
\* greater than the last_pulled_at of the push; and of two overlapping pushes
\* of a device with the same last_pulled_at that both modify a Game of the
\* device, at most one commits.
C30_GateUnderInterleaving ==
    /\ \A k \in Sessions :
           (Done(k, "push") /\ sessions[k].ok) =>
               ~NewerOwnGame(sessions[k].pre, sessions[k].device,
                             sessions[k].last_pulled_at)
    /\ \A j, k \in Sessions :
           (/\ j # k
            /\ Done(j, "push") /\ Done(k, "push")
            /\ sessions[j].device = sessions[k].device
            /\ sessions[j].last_pulled_at = sessions[k].last_pulled_at
            /\ Overlap(j, k)
            /\ sessions[j].ok /\ sessions[j].wrote
            /\ sessions[k].wrote)
           => ~sessions[k].ok


\* --------------------------------------------------- referential integrity
\* every reference of a store names a record of the referenced table
References(s) ==
    /\ \A r \in Rows(s.game_players) : r.game_id \in Ids(s.games)
    /\ \A r \in Rows(s.rounds) :
           /\ r.game_id \in Ids(s.games)
           /\ r.caller_id # NULL => r.caller_id \in Ids(s.game_players)
    /\ \A r \in Rows(s.scores) :
           /\ r.round_id \in Ids(s.rounds)
           /\ r.player_id \in Ids(s.game_players)

\* C31: after every step the store is referentially intact: game_id of every
\* Player and Round is the server identity of a Game, round_id and player_id
\* of every Score those of a Round and a Player, and a non-null caller_id of
\* a Round that of a Player; the device_id of a Game is the device whose push
\* inserted it, and no step changes it.
C31_ReferentialIntegrity ==
    [][/\ References(db')
       /\ \A i \in 1..Len(db'.games) :
              db'.games[i].device_id =
                  IF i <= Len(db.games) THEN db.games[i].device_id
                  ELSE call'.device]_vars

\* a committed push that inserted a Game, a Player, a Round with a caller
\* and a Score into a store in which another device has a Game
C31_Witness ==
    /\ Applied
    /\ call.ok
    /\ \A tb \in Tables : Inserted(tb) # {}
    /\ \E r \in Inserted("rounds") : r.caller_id # NULL
    /\ \E g \in Rows(call.pre.games) : g.device_id # call.device
    /\ \A g \in Inserted("games") : g.device_id = call.device


\* ------------------------------------------------ consistency within a Game
\* the record of a table with a server identity
ById(tbl, server_id) == CHOOSE r \in Rows(tbl) : r.id = server_id

\* the Round and the Player of every Score are of one Game
ScoresWithinGame ==
    \A sc \in Rows(db.scores) :
        ById(db.rounds, sc.round_id).game_id
            = ById(db.game_players, sc.player_id).game_id

\* the caller of every Round is a Player of the Game of the Round
CallersWithinGame ==
    \A r \in Rows(db.rounds) :
        r.caller_id # NULL =>
            ById(db.game_players, r.caller_id).game_id = r.game_id

\* what a push inserts is under a Game of the pushing device
InsertedUnderOwnGame ==
    Pushed =>
        \A tb \in ChildTables : \A r \in Inserted(tb) :
            OwnerOf(db, tb, r) = call.device

\* C32: in every reachable state the Round and the Player of a Score belong
\* to the same Game, the caller of a Round belongs to the Game of the Round,
\* and every Player, Round and Score that the push of a device inserts is
\* attached to a Game of that device.
C32_CrossRecordConsistency ==
    /\ ScoresWithinGame
    /\ CallersWithinGame
    /\ InsertedUnderOwnGame


\* ------------------------------------------------------------- stuck pushes
\* the store held a record of the table under the identity before the push
Existing(tb, c) == ByClientId(call.pre[tb], c) # {}

\* an updated or deleted entry for an existing identity, or a created child
\* that refers to an existing parent
Resolvable(tb, k, e) ==
    \/ k = "updated" /\ Existing(tb, e.id)
    \/ k = "deleted" /\ Existing(tb, e)
    \/ /\ k = "created"
       /\ \/ tb \in {"game_players", "rounds"} /\ Existing("games", e.game_id)
          \/ /\ tb = "rounds"
             /\ e.caller_id # NONE /\ Existing("game_players", e.caller_id)
          \/ /\ tb = "scores"
             /\ Existing("rounds", e.round_id)
                    \/ Existing("game_players", e.player_id)

\* C33: a push that passes the conflict gate and has an updated or deleted
\* entry for an existing client identity, or a created child that refers to
\* an existing parent identity, returns ok = true: no lookup by client
\* identity fails because two records of the table share the identity.
C33_NeverStuck ==
    (Applied /\ HasEntry(Resolvable)) =>
        /\ call.ok
        /\ call.errors = <<>>
        /\ call.tx.err # MultipleResultsFound

\* what holds: a push fails after the gate only by such a lookup, and only
\* when the session holds two records of a table under one identity
C33_StuckOnlyOnDuplicates ==
    (Applied /\ ~call.ok) =>
        /\ call.errors = <<MultipleResultsFound>>
        /\ \E tb \in Tables : \E i, j \in 1..Len(call.tx.db[tb]) :
               i # j /\ call.tx.db[tb][i].client_id = call.tx.db[tb][j].client_id

====
